---- MODULE Spec2Model ----
(***************************************************************************)
(* A model of the forecasting prototype's backend: the ForecastingEngine   *)
(* (src/backend/forecasting.py) and the request handlers that drive it     *)
(* (src/backend/main.py).                                                  *)
(*                                                                         *)
(* Floating point numbers are modelled as exact rationals extended with    *)
(* NaN and +infinity (the two values a numpy division by zero yields);     *)
(* rounding is not modelled.  Timestamps are day numbers (freq='D').       *)
(* The StatsForecast library is not part of the repository: its window     *)
(* layout is modelled from the arguments the engine passes to it, and the  *)
(* numbers its models predict are nondeterministic.                        *)
(***************************************************************************)
EXTENDS Integers, Sequences, FiniteSets, TLC

VARIABLES
    uploads,        \* the uploads/ directory: file name -> CSV content
    datasets,       \* table "datasets": sequence of Dataset rows
    model_configs,  \* table "model_configs": sequence of ModelConfig rows
    alerts,         \* table "alerts": sequence of Alert rows
    forecasting_engine, \* the module-level ForecastingEngine object of main.py
    call,           \* the last handled request with the handler's locals
    response        \* the response the last handler returned or raised

vars == <<uploads, datasets, model_configs, alerts, forecasting_engine, call, response>>

----------------------------------------------------------------------------
(* Bounds of the model *)

MaxHorizon == 2
MaxFolds == 2
MaxModels == 2
MaxAlerts == 1
\* a number of folds that the shortest kept series cannot hold at every horizon
LongFolds == 5

(* Program constants *)

MinSeriesLength == 30
StepSize == 7

----------------------------------------------------------------------------
(* Floats: [k |-> "fin", n, d] is the rational n/d (d > 0, lowest terms);  *)
(* [k |-> "nan"] and [k |-> "inf"] are numpy's nan and +inf.               *)

Abs(x) == IF x < 0 THEN -x ELSE x

RECURSIVE Gcd(_, _)
Gcd(a, b) == IF b = 0 THEN a ELSE Gcd(b, a % b)

NaN == [k |-> "nan", n |-> 0, d |-> 0]
Inf == [k |-> "inf", n |-> 1, d |-> 0]
Fin(n, d) == LET g == Gcd(n, d) IN [k |-> "fin", n |-> n \div g, d |-> d \div g]

\* numpy's float division of two non-negative sums: x/0 is inf, 0/0 is nan
FloatDiv(n, d) ==
    IF d = 0 THEN (IF n = 0 THEN NaN ELSE Inf) ELSE Fin(n, d)

\* IEEE-754 "a < b": every comparison with nan is false
FloatLt(a, b) ==
    CASE a.k = "nan" \/ b.k = "nan" -> FALSE
      [] a.k = "inf" -> FALSE
      [] b.k = "inf" -> TRUE
      [] OTHER -> a.n * b.d < b.n * a.d

----------------------------------------------------------------------------
(* Data frames.  A cell of a numeric column is [na |-> TRUE] (NaN/None) or *)
(* a value.                                                                *)

\* None
Null == [none |-> TRUE]

Missing == [na |-> TRUE, v |-> 0]
Val(x) == [na |-> FALSE, v |-> x]

\* A cell of the timestamp column as read_csv returns it: the text of the date
\* of day d, an empty cell (NaN), or a text that is no date
DateText(d) == [text |-> "date", day |-> d]
\* A cell of a column that holds parsed instants (datetime64)
Timestamp(v) == [text |-> "datetime", day |-> v]
EmptyCell == [text |-> "empty", day |-> 0]
GarbageCell == [text |-> "garbage", day |-> 0]

\* NaT, the value of a datetime column that stands for no instant; the
\* instants themselves are the numbers of their days, 1, 2, ...
NaT == -1

\* pd.to_datetime(column): an empty cell becomes NaT without an error, a text
\* that is no date raises
to_datetime(cells) ==
    [raised |-> \E i \in DOMAIN cells : cells[i].text = "garbage",
     values |-> [i \in DOMAIN cells |->
                    IF cells[i].text \in {"date", "datetime"}
                    THEN cells[i].day ELSE NaT]]

SeriesIds == {"A", "B"}
\* the order of Python strings on the ids in use
IdRank == [s \in SeriesIds |-> IF s = "A" THEN 1 ELSE 2]

\* Lengths a series of an uploaded file may have (0: the series is absent)
SeriesLengths == [A |-> {25, 37}, B |-> {0, 30}]

\* The observed value of series s on day t
Y(s, t) == (t % 3) - 1

\* The capacity of series s on day t, in a file that has a capacity column:
\* 0 for series "A", 1 for series "B"
Capacity(s, t) == IdRank[s] - 1

\* The CSV files a client uploads: per series its number of daily rows, and
\* whether the file has a 'capacity' column.
Contents ==
    [lengths : {f \in [SeriesIds -> 0..37] :
                    \A s \in SeriesIds : f[s] \in SeriesLengths[s]},
     has_capacity : BOOLEAN]

MaxLen(content) ==
    CHOOSE n \in {content.lengths[s] : s \in SeriesIds} :
        \A s \in SeriesIds : content.lengths[s] <= n

\* What a file may have wrong, for the files that say so (defect): no 'y'
\* column, an empty 'y' cell, a timestamp cell that is no date, an empty
\* timestamp cell (each in the first row), or a header without rows
Defects == {"none", "no_y", "null_y", "bad_timestamp", "empty_timestamp", "no_rows"}

with_defect(df, defect) ==
    CASE defect = "no_y" ->
            [df EXCEPT !.columns = SelectSeq(df.columns, LAMBDA c : c # "y"),
                       !.rows = [i \in DOMAIN df.rows |->
                                    [series_id |-> df.rows[i].series_id,
                                     timestamp |-> df.rows[i].timestamp]]]
      [] defect = "null_y" ->
            [df EXCEPT !.rows[1].y = Missing]
      [] defect = "bad_timestamp" ->
            [df EXCEPT !.rows[1].timestamp = GarbageCell]
      [] defect = "empty_timestamp" ->
            [df EXCEPT !.rows[1].timestamp = EmptyCell]
      [] defect = "no_rows" ->
            [df EXCEPT !.rows = <<>>]
      [] OTHER -> df

\* The frame of a file without defect, its rows in file order (day by day,
\* "B" before "A"); the frame remembers the file it was read from
read_rows(content) ==
    LET n == MaxLen(content)
        grid == [j \in 1..(2 * n) |->
                    [series_id |-> IF j % 2 = 1 THEN "B" ELSE "A",
                     day |-> (j + 1) \div 2,
                     y |-> Val(Y(IF j % 2 = 1 THEN "B" ELSE "A", (j + 1) \div 2))]]
        kept == SelectSeq(grid,
                     LAMBDA r : r.day <= content.lengths[r.series_id])
    IN  [file |-> content,
         columns |-> <<"timestamp", "series_id", "y">>
                        \o (IF content.has_capacity THEN <<"capacity">> ELSE <<>>),
         rows |-> IF content.has_capacity
                  THEN [i \in DOMAIN kept |->
                           [series_id |-> kept[i].series_id,
                            timestamp |-> DateText(kept[i].day),
                            y |-> kept[i].y,
                            capacity |-> Val(Capacity(kept[i].series_id,
                                                      kept[i].day))]]
                  ELSE [i \in DOMAIN kept |->
                           [series_id |-> kept[i].series_id,
                            timestamp |-> DateText(kept[i].day),
                            y |-> kept[i].y]]]

\* pd.read_csv
read_csv(content) ==
    IF "defect" \in DOMAIN content
    THEN with_defect(read_rows(content), content.defect)
    ELSE read_rows(content)

Range(seq) == {seq[i] : i \in DOMAIN seq}

----------------------------------------------------------------------------
(* ForecastingEngine *)

\* self.models_map: the registry of known model names
models_map == {"AutoARIMA", "ETS", "Theta"}

\* The order of sort_values on a datetime column: NaT comes last
DsBefore(a, b) == a # NaT /\ (b = NaT \/ a < b)

\* df.sort_values(['unique_id', 'ds']) as a stable sort of the rows
RowBefore(rows, i, j) ==
    \/ IdRank[rows[i].unique_id] < IdRank[rows[j].unique_id]
    \/ /\ rows[i].unique_id = rows[j].unique_id
       /\ \/ DsBefore(rows[i].ds, rows[j].ds)
          \/ rows[i].ds = rows[j].ds /\ i < j

\* A sort that also drops every row whose series and timestamp an earlier
\* row of the input has
sort_values_deduplicated(rows) ==
    LET first == SelectSeq([i \in 1..Len(rows) |-> [at |-> i, row |-> rows[i]]],
                     LAMBDA e : \A j \in 1..(e.at - 1) :
                                   \/ rows[j].unique_id # e.row.unique_id
                                   \/ rows[j].ds # e.row.ds)
        kept == [i \in DOMAIN first |-> first[i].row]
        rank == [i \in 1..Len(kept) |->
                    Cardinality({j \in 1..Len(kept) : RowBefore(kept, j, i)})]
    IN  [p \in 1..Len(kept) |-> kept[CHOOSE i \in 1..Len(kept) : rank[i] = p - 1]]

sort_values(rows) ==
    LET rank == [i \in 1..Len(rows) |->
                    Cardinality({j \in 1..Len(rows) : RowBefore(rows, j, i)})]
    IN  [p \in 1..Len(rows) |-> rows[CHOOSE i \in 1..Len(rows) : rank[i] = p - 1]]

\* df.groupby('unique_id').size()
series_counts(rows) ==
    [s \in {r.unique_id : r \in Range(rows)} |->
        Cardinality({i \in 1..Len(rows) : rows[i].unique_id = s})]

\* valid_series without the length filter (every series is kept): the
\* variant C1_ShortSeriesAbsent has to tell from valid_series
valid_series_unfiltered(rows) ==
    DOMAIN series_counts(rows)

\* series_counts[series_counts >= 30].index
valid_series(rows) ==
    LET counts == series_counts(rows)
    IN  {s \in DOMAIN counts : counts[s] >= MinSeriesLength}

\* The frame of the caller with the parsed timestamps written into it
with_timestamps(df, values) ==
    [df EXCEPT !.rows = [i \in DOMAIN df.rows |->
                            [df.rows[i] EXCEPT !.timestamp = Timestamp(values[i])]]]

\* prepare_data working on the frame it is given instead of a copy of it
prepare_data_in_place(df) ==
    LET parsed == to_datetime([i \in DOMAIN df.rows |-> df.rows[i].timestamp])
    IN  IF parsed.raised
        THEN [raised |-> TRUE, error |-> "DateParseError", input |-> df]
        ELSE
        LET renamed == [i \in 1..Len(df.rows) |->
                           [unique_id |-> df.rows[i].series_id,
                            ds |-> parsed.values[i],
                            y |-> df.rows[i].y]]
            sorted == sort_values(renamed)
            valid == valid_series(sorted)
        IN  [raised |-> FALSE,
             columns |-> <<"unique_id", "ds", "y">>,
             rows |-> SelectSeq(sorted, LAMBDA r : r.unique_id \in valid),
             input |-> with_timestamps(df, parsed.values)]

\* ForecastingEngine.prepare_data: the frame it returns, or the error of
\* pd.to_datetime, and (input) the frame of the caller as the call leaves
\* it: the method works on df.copy()
prepare_data(df) ==
    LET parsed == to_datetime([i \in DOMAIN df.rows |-> df.rows[i].timestamp])
    IN  IF parsed.raised
        THEN [raised |-> TRUE, error |-> "DateParseError", input |-> df]
        ELSE
        LET renamed == [i \in 1..Len(df.rows) |->
                           [unique_id |-> df.rows[i].series_id,
                            ds |-> parsed.values[i],
                            y |-> df.rows[i].y]]
            sorted == sort_values(renamed)
            valid == valid_series(sorted)
        IN  [raised |-> FALSE,
             columns |-> <<"unique_id", "ds", "y">>,
             rows |-> SelectSeq(sorted, LAMBDA r : r.unique_id \in valid),
             input |-> df]

\* ForecastingEngine.validate_data: the dictionary it returns, or the error
\* of int(series_counts.min()) on a frame without rows, and (input) the
\* frame of the caller as the call leaves it: the parsed timestamps are
\* written into it
validate_data(df) ==
    LET has(c) == c \in Range(df.columns)
        missing_cols == SelectSeq(<<"timestamp", "series_id", "y">>,
                                  LAMBDA c : ~has(c))
        null_count == IF has("y")
                      THEN Cardinality({i \in DOMAIN df.rows : df.rows[i].y.na})
                      ELSE 0
        parsed == IF has("timestamp")
                  THEN to_datetime([i \in DOMAIN df.rows |-> df.rows[i].timestamp])
                  ELSE [raised |-> FALSE, values |-> <<>>]
        after == IF has("timestamp") /\ ~parsed.raised
                 THEN with_timestamps(df, parsed.values) ELSE df
        issues == (IF missing_cols # <<>>
                   THEN <<"Missing required columns">> ELSE <<>>)
                  \o (IF null_count > 0
                      THEN <<"Found null values in target variable 'y'">> ELSE <<>>)
                  \o (IF parsed.raised
                      THEN <<"Could not parse 'timestamp' column as datetime">>
                      ELSE <<>>)
        ids == {df.rows[i].series_id : i \in DOMAIN df.rows}
        size == [s \in ids |->
                    Cardinality({i \in DOMAIN df.rows : df.rows[i].series_id = s})]
    IN  IF has("series_id") /\ has("timestamp") /\ df.rows = <<>>
        THEN [raised |-> TRUE, error |-> "cannot convert float NaN to integer",
              input |-> after]
        ELSE [raised |-> FALSE,
              is_valid |-> (Len(issues) = 0),
              issues |-> issues,
              n_observations |-> Len(df.rows),
              series_stats |->
                  IF has("series_id") /\ has("timestamp")
                  THEN [n_series |-> Cardinality(ids),
                        min_length |-> CHOOSE n \in Range(size) :
                                          \A s \in ids : n <= size[s],
                        max_length |-> CHOOSE n \in Range(size) :
                                          \A s \in ids : n >= size[s]]
                  ELSE <<>>,
              columns |-> df.columns,
              input |-> after]

\* The frames of the files of the model and their prepared frames, tabulated
\* (read_csv and prepare_data are pure; each is evaluated once per file).
\* The engine is handed frames read from these files only, and finds
\* prepare_data(df) under the file df was read from.
csv_frames == [content \in Contents |-> read_csv(content)] @@ <<>>
prepared_frames ==
    [content \in Contents |-> prepare_data(csv_frames[content])] @@ <<>>

\* The files a client uploads: a file without defect of each of two sizes,
\* and the larger one with each defect
UploadFiles ==
    {[lengths |-> [A |-> 37, B |-> 30], has_capacity |-> FALSE, defect |-> d] :
        d \in Defects}
    \cup {[lengths |-> [A |-> 25, B |-> 0], has_capacity |-> FALSE,
           defect |-> "none"]}

\* The frames of the files a client uploads or has uploaded, and what
\* validate_data returns for them, tabulated
upload_frames == [file \in UploadFiles \cup Contents |-> read_csv(file)] @@ <<>>
validation_results ==
    [file \in UploadFiles \cup Contents |-> validate_data(upload_frames[file])] @@ <<>>

\* ForecastingEngine(): the n-th engine object the process constructs.  Its
\* only attribute is the registry; no method assigns an attribute of self.
ForecastingEngine(n) == [instance |-> n, models_map |-> models_map]

\* A selection that keeps every requested name, registered or not
selected_models_unfiltered(models) == models

\* [self.models_map[model] for model in models if model in self.models_map],
\* self being the module-level engine every handler calls
selected_models(models) ==
    SelectSeq(models, LAMBDA m : m \in forecasting_engine.models_map)

\* The rows of one series of a prepared frame, in order
series_rows(rows, s) == SelectSeq(rows, LAMBDA r : r.unique_id = s)

\* The ids of a prepared frame in their sorted order
SortedIds(ids) ==
    [p \in 1..Cardinality(ids) |->
        CHOOSE s \in ids : Cardinality({u \in ids : IdRank[u] < IdRank[s]}) = p - 1]

\* A cross-validation window whose test rows start at the cutoff row itself
window_rows_from_cutoff(srows, models, h, step_size, k, pred) ==
    LET L == Len(srows)
        cut == L - h - k * step_size
    IN  [i \in 1..h |->
            [unique_id |-> srows[1].unique_id,
             ds |-> srows[cut + i - 1].ds,
             cutoff |-> srows[cut].ds,
             y |-> srows[cut + i - 1].y,
             pred |-> [m \in Range(models) |->
                          IF pred[m][srows[1].unique_id].na
                          THEN Missing
                          ELSE Val(srows[cut + i - 1].y.v
                                      + pred[m][srows[1].unique_id].v)]]]

\* One window of StatsForecast.cross_validation for one series: the h rows
\* after the cutoff, the k-th window counted back from the end of the series
\* in steps of step_size.  pred[m][s] is what model m predicts for series s:
\* Missing (no prediction) or the offset of its prediction from the actual.
window_rows(srows, models, h, step_size, k, pred) ==
    LET L == Len(srows)
        cut == L - h - k * step_size
    IN  [i \in 1..h |->
            [unique_id |-> srows[1].unique_id,
             ds |-> srows[cut + i].ds,
             cutoff |-> srows[cut].ds,
             y |-> srows[cut + i].y,
             pred |-> [m \in Range(models) |->
                          IF pred[m][srows[1].unique_id].na
                          THEN Missing
                          ELSE Val(srows[cut + i].y.v
                                      + pred[m][srows[1].unique_id].v)]]]

RECURSIVE windows_of(_, _, _, _, _, _)
windows_of(srows, models, h, step_size, k, pred) ==
    IF k < 0 THEN <<>>
    ELSE window_rows(srows, models, h, step_size, k, pred)
            \o windows_of(srows, models, h, step_size, k - 1, pred)

RECURSIVE cv_rows(_, _, _, _, _, _, _)
cv_rows(rows, ids, models, h, step_size, n_windows, pred) ==
    IF ids = <<>> THEN <<>>
    ELSE windows_of(series_rows(rows, Head(ids)), models, h, step_size,
                    n_windows - 1, pred)
            \o cv_rows(rows, Tail(ids), models, h, step_size, n_windows, pred)

\* sf.cross_validation(df=df_clean, h=horizon, step_size=7, n_windows=n_folds)
cross_validation(df, models, h, step_size, n_windows, pred) ==
    [columns |-> <<"unique_id", "ds", "cutoff", "y">> \o models,
     rows |-> cv_rows(df.rows, SortedIds({df.rows[i].unique_id : i \in DOMAIN df.rows}),
                      models, h, step_size, n_windows, pred)]

\* np.sum of a column of numbers over the rows a mask selects: mask and
\* term give, for the index of a row, whether it is selected and its number
SumOver(rows, mask, term) ==
    LET acc[i \in 0..Len(rows)] ==
            IF i = 0 THEN 0
            ELSE acc[i - 1] + (IF mask[i] THEN term[i] ELSE 0)
    IN  acc[Len(rows)]

\* mask.sum(): the number of rows a mask selects
CountOver(rows, mask) == SumOver(rows, mask, [i \in DOMAIN rows |-> 1])

\* cv_results[model].notna() & cv_results['y'].notna()
both_present(rows, model) ==
    [i \in DOMAIN rows |-> ~rows[i].pred[model].na /\ ~rows[i].y.na]

\* np.abs(actual - predicted) and np.abs(actual), row by row
abs_errors(rows, model) ==
    [i \in DOMAIN rows |-> Abs(rows[i].y.v - rows[i].pred[model].v)]

abs_actuals(rows) == [i \in DOMAIN rows |-> Abs(rows[i].y.v)]

\* wape_of with the denominator taken over every row instead of the masked
\* rows: the variant C3_WapeIsGlobalRatio has to tell from wape_of
wape_of_all_actuals(rows, model) ==
    FloatDiv(SumOver(rows, both_present(rows, model), abs_errors(rows, model)),
             SumOver(rows, [i \in DOMAIN rows |-> ~rows[i].y.na], abs_actuals(rows)))

\* wape = np.sum(np.abs(actual - predicted)) / np.sum(np.abs(actual))
wape_of(rows, model) ==
    FloatDiv(SumOver(rows, both_present(rows, model), abs_errors(rows, model)),
             SumOver(rows, both_present(rows, model), abs_actuals(rows)))

\* model_metrics without the two "continue" statements (a model without a
\* valid pair is scored too): the variant C8_UnscoredModelHasNoEntry has to
\* tell from model_metrics
model_metrics_unskipped(cv_results, model, has_capacity) ==
    <<[model |-> model,
       scores |-> IF has_capacity
                  THEN [wape |-> wape_of(cv_results.rows, model),
                        capacity_breach_rate |-> Fin(0, 1)]
                  ELSE [wape |-> wape_of(cv_results.rows, model)]]>>

\* One pass of the loop "for model in model_cols": the entries it adds to
\* the metrics dict (none when the model is skipped)
model_metrics(cv_results, model, has_capacity) ==
    IF CountOver(cv_results.rows,
                 [i \in DOMAIN cv_results.rows |->
                     ~cv_results.rows[i].pred[model].na]) = 0 THEN <<>>
    ELSE IF CountOver(cv_results.rows, both_present(cv_results.rows, model)) = 0
    THEN <<>>
    ELSE <<[model |-> model,
            scores |-> IF has_capacity
                       THEN [wape |-> wape_of(cv_results.rows, model),
                             capacity_breach_rate |-> Fin(0, 1)]
                       ELSE [wape |-> wape_of(cv_results.rows, model)]]>>

RECURSIVE metrics_loop(_, _, _)
metrics_loop(cv_results, model_cols, has_capacity) ==
    IF model_cols = <<>> THEN <<>>
    ELSE model_metrics(cv_results, Head(model_cols), has_capacity)
            \o metrics_loop(cv_results, Tail(model_cols), has_capacity)

\* The metrics dict in insertion order: a sequence of (model, scores) items
calculate_metrics(cv_results, original_df, quantiles) ==
    metrics_loop(cv_results,
                 SelectSeq(cv_results.columns,
                           LAMBDA c : c \notin {"ds", "unique_id", "y", "cutoff"}),
                 "capacity" \in Range(original_df.columns))

NoValidSeries == "No valid series found (minimum 30 observations required)"

\* The series of a prepared frame that are too short for the windows asked
\* of sf.cross_validation, whose test part covers the last
\* h + step_size * (n_windows - 1) rows: the library raises for them
short_series(df, h, step_size, n_windows) ==
    {s \in {df.rows[i].unique_id : i \in DOMAIN df.rows} :
        Len(series_rows(df.rows, s)) <= h + step_size * (n_windows - 1)}

\* engine_run_backtest without the check of an empty prepared frame: the
\* variant C13_NoValidSeriesFailsFirst has to tell from engine_run_backtest
engine_run_backtest_unchecked(df, models, horizon, quantiles, n_folds, lib) ==
    LET df_clean == prepared_frames[df.file]
        selected == selected_models(models)
    IN  IF df_clean.raised
        THEN [raised |-> TRUE, error |-> df_clean.error]
        ELSE IF selected = <<>> /\ lib.no_models = "raises"
        THEN [raised |-> TRUE, error |-> "StatsForecast error"]
        ELSE IF short_series(df_clean, horizon, StepSize, n_folds) # {}
        THEN [raised |-> TRUE, error |-> "series too short for the cross validation settings"]
        ELSE IF lib.fit_failure # Null
        THEN [raised |-> TRUE, error |-> "fit failed", failed |-> lib.fit_failure]
        ELSE LET cv_results == cross_validation(df_clean, selected, horizon,
                                                StepSize, n_folds, lib.pred)
             IN  [raised |-> FALSE,
                  cv_results |-> cv_results,
                  metrics |-> calculate_metrics(cv_results, df, quantiles),
                  n_series |-> Cardinality({df_clean.rows[i].unique_id : i \in DOMAIN df_clean.rows})]

\* ForecastingEngine.run_backtest.  lib is what the library does on this
\* call: lib.pred the predictions of its models, lib.no_models what
\* cross_validation does when it is given no model at all, lib.fit_failure
\* the (model, series, fold) whose fit raises, if any.  No fallback_model is
\* passed, so an exception of a fit leaves cross_validation.
engine_run_backtest(df, models, horizon, quantiles, n_folds, lib) ==
    LET df_clean == prepared_frames[df.file]
        selected == selected_models(models)
    IN  IF df_clean.raised
        THEN [raised |-> TRUE, error |-> df_clean.error]
        ELSE IF Len(df_clean.rows) = 0
        THEN [raised |-> TRUE, error |-> NoValidSeries]
        ELSE IF selected = <<>> /\ lib.no_models = "raises"
        THEN [raised |-> TRUE, error |-> "StatsForecast error"]
        ELSE IF short_series(df_clean, horizon, StepSize, n_folds) # {}
        THEN [raised |-> TRUE, error |-> "series too short for the cross validation settings"]
        ELSE IF lib.fit_failure # Null
        THEN [raised |-> TRUE, error |-> "fit failed", failed |-> lib.fit_failure]
        ELSE LET cv_results == cross_validation(df_clean, selected, horizon,
                                                StepSize, n_folds, lib.pred)
             IN  [raised |-> FALSE,
                  cv_results |-> cv_results,
                  metrics |-> calculate_metrics(cv_results, df, quantiles),
                  n_series |-> Cardinality({df_clean.rows[i].unique_id : i \in DOMAIN df_clean.rows})]

\* The columns sf.forecast adds for one model with level=[80, 90], tabulated
\* for the registered models
forecast_column_names ==
    [m \in models_map |->
        <<m, m \o "-lo-90", m \o "-lo-80", m \o "-hi-80", m \o "-hi-90">>] @@ <<>>

forecast_columns(m) == forecast_column_names[m]

RECURSIVE all_forecast_columns(_)
all_forecast_columns(models) ==
    IF models = <<>> THEN <<>>
    ELSE forecast_columns(Head(models)) \o all_forecast_columns(Tail(models))

\* The cells of one forecast row: for every model its point forecast and the
\* bounds of its 80% and 90% bands, which lie one and two spreads around the
\* point (the library sets the spread; the engine does not look at it)
RECURSIVE forecast_cells(_, _)
forecast_cells(models, point_of) ==
    IF models = <<>> THEN <<>>
    ELSE LET m == Head(models)
             point == point_of[m].point
             spread == point_of[m].spread
             columns == forecast_columns(m)
         IN  (columns[1] :> point) @@ (columns[2] :> (point - 2 * spread))
                 @@ (columns[3] :> (point - spread))
                 @@ (columns[4] :> (point + spread))
                 @@ (columns[5] :> (point + 2 * spread))
                 @@ forecast_cells(Tail(models), point_of)

\* The h rows sf.forecast returns for one series: the days after its last
\* observation.  fc[m].level is the level model m forecasts for the first
\* series (the level of the second lies one above it); a point forecast
\* grows by one a day.
forecast_rows_of(srows, models, h, fc) ==
    [i \in 1..h |->
        [unique_id |-> srows[1].unique_id,
         ds |-> srows[Len(srows)].ds + i,
         cells |-> forecast_cells(models,
                      [m \in Range(models) |->
                          [point |-> fc[m].level + (IdRank[srows[1].unique_id] - 1) + i,
                           spread |-> fc[m].spread]])]]

RECURSIVE forecast_rows(_, _, _, _, _)
forecast_rows(rows, ids, models, h, fc) ==
    IF ids = <<>> THEN <<>>
    ELSE forecast_rows_of(series_rows(rows, Head(ids)), models, h, fc)
            \o forecast_rows(rows, Tail(ids), models, h, fc)

\* sf.forecast(df=df_clean, h=horizon, level=confidence_levels)
sf_forecast(df, models, h, fc) ==
    [columns |-> <<"unique_id", "ds">> \o all_forecast_columns(models),
     rows |-> forecast_rows(df.rows, SortedIds({df.rows[i].unique_id : i \in DOMAIN df.rows}),
                            models, h, fc)]

\* ForecastingEngine.generate_forecast (confidence_levels is left at its
\* default [80, 90] by both callers).  lib.fit_failure is the series on which
\* a fit raises, if any: the exception leaves sf.forecast.
engine_generate_forecast(df, models, horizon, lib) ==
    LET df_clean == prepared_frames[df.file]
        selected == selected_models(models)
    IN  IF df_clean.raised
        THEN [raised |-> TRUE, error |-> df_clean.error]
        ELSE IF (selected = <<>> \/ Len(df_clean.rows) = 0) /\ lib.no_models = "raises"
        THEN [raised |-> TRUE, error |-> "StatsForecast error"]
        ELSE IF lib.fit_failure # Null
        THEN [raised |-> TRUE, error |-> "fit failed", failed |-> lib.fit_failure]
        ELSE [raised |-> FALSE,
              forecasts |-> sf_forecast(df_clean, selected, horizon, lib.fc)]

\* The alert a row of high_demand is turned into
alert_of(row, threshold) ==
    [series_id |-> row.unique_id,
     date |-> row.ds,
     predicted_demand |-> row.cells["AutoARIMA-hi-90"],
     threshold |-> threshold,
     message |-> <<"P90 demand (", row.cells["AutoARIMA-hi-90"],
                   ") exceeds threshold (", threshold, ")">>]

\* for _, row in high_demand.iterrows(): alerts.append({...})
RECURSIVE append_alerts(_, _, _)
append_alerts(alerts_so_far, high_demand, threshold) ==
    IF high_demand = <<>> THEN alerts_so_far
    ELSE append_alerts(Append(alerts_so_far, alert_of(Head(high_demand), threshold)),
                       Tail(high_demand), threshold)

\* check_capacity_alerts with the list of alerts kept from one call to the
\* next (as an attribute of the engine would be): the variant
\* C10_AlertCheckIdempotent has to tell from check_capacity_alerts
check_capacity_alerts_accumulating(forecasts, capacity_df, threshold) ==
    [alerts |->
        IF "AutoARIMA-hi-90" \in Range(forecasts.columns)
        THEN append_alerts(IF call.op = "check_alerts" /\ response.status_code = 200
                           THEN call.result.alerts_triggered ELSE <<>>,
                 SelectSeq(forecasts.rows,
                           LAMBDA r : r.cells["AutoARIMA-hi-90"] > threshold),
                 threshold)
        ELSE <<>>,
     forecasts |-> forecasts]

\* ForecastingEngine.check_capacity_alerts: the list it returns, and the
\* forecasts frame as the call leaves it (capacity_df is not read)
check_capacity_alerts(forecasts, capacity_df, threshold) ==
    [alerts |->
        IF "AutoARIMA-hi-90" \in Range(forecasts.columns)
        THEN append_alerts(<<>>,
                 SelectSeq(forecasts.rows,
                           LAMBDA r : r.cells["AutoARIMA-hi-90"] > threshold),
                 threshold)
        ELSE <<>>,
     forecasts |-> forecasts]

----------------------------------------------------------------------------
(* Request handlers (src/backend/main.py) *)

HTTPException(status_code, detail) ==
    [status_code |-> status_code, detail |-> detail]

Ok(body) == [status_code |-> 200, body |-> body]

\* file.filename.replace('.csv', '') for the file names in use
FileNames == {"data.csv", "b.csv"}
filename_stem == [f \in FileNames |-> IF f = "data.csv" THEN "data" ELSE "b"]

\* models.Dataset(...) as db.add and db.commit store it
Dataset(id, name, filename, validation_result) ==
    [id |-> id, name |-> name, filename |-> filename,
     n_series |-> IF "n_series" \in DOMAIN validation_result.series_stats
                  THEN validation_result.series_stats.n_series ELSE 0,
     n_observations |-> validation_result.n_observations]

\* schemas.DatasetResponse(...)
DatasetResponse(dataset) ==
    [id |-> dataset.id, name |-> dataset.name, filename |-> dataset.filename,
     n_series |-> dataset.n_series, n_observations |-> dataset.n_observations]

\* An upload that stores the record without looking at is_valid
upload_dataset_unvalidated(filename, name, file) ==
    LET stored == [f \in DOMAIN uploads \cup {filename} |->
                      IF f = filename THEN file ELSE uploads[f]]
        validation_result == validation_results[file]
        dataset == Dataset(Len(datasets) + 1,
                           IF name = "" THEN filename_stem[filename] ELSE name,
                           filename,
                           IF validation_result.raised
                           THEN [series_stats |-> <<>>, n_observations |-> 0]
                           ELSE validation_result)
    IN  [uploads |-> stored,
         datasets |-> Append(datasets, dataset),
         response |-> Ok(DatasetResponse(dataset))]

\* POST /datasets/upload: the file is written to uploads/ under its own name
\* first, then read back and validated; name is "" when the client sends none
upload_dataset(filename, name, file) ==
    LET name_used == IF name = "" THEN filename_stem[filename] ELSE name
        stored == [f \in DOMAIN uploads \cup {filename} |->
                      IF f = filename THEN file ELSE uploads[f]]
        validation_result == validation_results[file]
        failed(detail) == [uploads |-> stored, datasets |-> datasets,
                           response |-> HTTPException(400,
                               <<"Error processing file: ">> \o detail)]
    IN  IF validation_result.raised
        THEN failed(<<validation_result.error>>)
        ELSE IF ~validation_result.is_valid
        THEN failed(<<"400: ">> \o validation_result.issues)
        ELSE IF \E i \in DOMAIN datasets : datasets[i].name = name_used
        \* Dataset.name is unique: db.commit() raises IntegrityError
        THEN failed(<<"UNIQUE constraint failed: datasets.name">>)
        ELSE
        LET dataset == Dataset(Len(datasets) + 1, name_used, filename,
                               validation_result)
        IN  [uploads |-> stored,
             datasets |-> Append(datasets, dataset),
             response |-> Ok(DatasetResponse(dataset))]

\* db.query(models.X).filter(models.X.id == id).first()
first_by_id(table, id) ==
    IF \E i \in DOMAIN table : table[i].id = id
    THEN table[CHOOSE i \in DOMAIN table :
                   table[i].id = id /\ \A j \in DOMAIN table : table[j].id = id => i <= j]
    ELSE Null

\* schemas.BacktestRequest: the fields the request model declares; any other
\* field of the posted JSON body (such as step_size or deadline) is dropped.
BacktestRequest(body) ==
    [dataset_id |-> body.dataset_id,
     models |-> body.models,
     horizon |-> body.horizon,
     quantiles |-> body.quantiles,
     n_folds |-> body.n_folds]

\* min(items, key=lambda x: x[1]['wape']) on a non-empty sequence of items:
\* the first item no later item is strictly smaller than
RECURSIVE min_from(_, _)
min_from(best, rest) ==
    IF rest = <<>> THEN best
    ELSE min_from(IF FloatLt(Head(rest).scores.wape, best.scores.wape)
                  THEN Head(rest) ELSE best,
                  Tail(rest))

\* best_model_of as min(..., default=...) would make it (an empty metrics
\* dict yields a placeholder instead of an error): the variant
\* C7_NoScoresFailsBacktest has to tell from best_model_of
best_model_or_default(metrics) ==
    IF metrics = <<>>
    THEN [raised |-> FALSE,
          item |-> [model |-> "None", scores |-> [wape |-> Fin(0, 1)]]]
    ELSE [raised |-> FALSE, item |-> min_from(Head(metrics), Tail(metrics))]

\* best_model = min(backtest_result['metrics'].items(), key=...): min()
\* raises ValueError on an empty sequence
best_model_of(metrics) ==
    IF metrics = <<>>
    THEN [raised |-> TRUE, error |-> "min() arg is an empty sequence"]
    ELSE [raised |-> FALSE, item |-> min_from(Head(metrics), Tail(metrics))]

\* best_model[1].get('capacity_breach_rate', 0.0)
get_capacity_breach_rate(scores) ==
    IF "capacity_breach_rate" \in DOMAIN scores
    THEN scores.capacity_breach_rate ELSE Fin(0, 1)

\* models.ModelConfig(...) as added to the table: the next id
new_model_config(request, best) ==
    [id |-> Len(model_configs) + 1,
     dataset_id |-> request.dataset_id,
     track |-> "baseline",
     models |-> request.models,
     horizon |-> request.horizon,
     quantiles |-> request.quantiles,
     winner_model |-> best.model,
     wape |-> best.scores.wape,
     capacity_breach_rate |-> get_capacity_breach_rate(best.scores)]

\* schemas.BacktestResult(...)
BacktestResult(config, best, metrics) ==
    [model_config_id |-> config.id,
     winner_model |-> best.model,
     wape |-> best.scores.wape,
     capacity_breach_rate |-> get_capacity_breach_rate(best.scores),
     model_results |-> metrics]

\* POST /models/backtest: what the handler leaves behind for a posted body,
\* given what the library does (lib)
run_backtest(body, lib) ==
    LET request == BacktestRequest(body)
        dataset == first_by_id(datasets, request.dataset_id)
        failed(resp) == [model_configs |-> model_configs,
                         result |-> Null, response |-> resp]
    IN  IF dataset = Null
        THEN failed(HTTPException(404, <<"Dataset not found">>))
        ELSE IF dataset.filename \notin DOMAIN uploads
        THEN failed(HTTPException(404, <<"Dataset file not found">>))
        ELSE
        LET df == csv_frames[uploads[dataset.filename]]
            res == engine_run_backtest(df, request.models, request.horizon,
                                       request.quantiles, request.n_folds, lib)
        IN  IF res.raised
            THEN [model_configs |-> model_configs, result |-> res,
                  response |-> HTTPException(400, <<"Backtest failed: ", res.error>>)]
            ELSE
            LET best == best_model_of(res.metrics)
            IN  IF best.raised
                THEN [model_configs |-> model_configs, result |-> res,
                      response |-> HTTPException(400, <<"Backtest failed: ", best.error>>)]
                ELSE
                LET config == new_model_config(request, best.item)
                IN  [model_configs |-> Append(model_configs, config),
                     result |-> res,
                     response |-> Ok(BacktestResult(config, best.item, res.metrics))]

ResponseLimit == 100

\* forecasts.to_dict('records')[:100]
first_records(rows) ==
    SubSeq(rows, 1, IF Len(rows) < ResponseLimit THEN Len(rows) ELSE ResponseLimit)

\* POST /forecasts/generate
generate_forecast(request, lib) ==
    LET model_config == first_by_id(model_configs, request.model_config_id)
    IN  IF model_config = Null
        THEN [result |-> Null,
              response |-> HTTPException(404, <<"Model config not found">>)]
        ELSE
        LET dataset == first_by_id(datasets, model_config.dataset_id)
        IN  IF dataset = Null
            THEN [result |-> Null,
                  response |-> HTTPException(400,
                      <<"Forecast generation failed: ", "AttributeError">>)]
            ELSE IF dataset.filename \notin DOMAIN uploads
            THEN [result |-> Null,
                  response |-> HTTPException(400,
                      <<"Forecast generation failed: ", "FileNotFoundError">>)]
            ELSE
            LET df == csv_frames[uploads[dataset.filename]]
                res == engine_generate_forecast(df, model_config.models,
                                                model_config.horizon, lib)
            IN  IF res.raised
                THEN [result |-> res,
                      response |-> HTTPException(400,
                          <<"Forecast generation failed: ", res.error>>)]
                ELSE [result |-> res,
                      response |-> Ok(
                          [forecast_id |-> <<"fc", model_config.id>>,
                           model_config_id |-> model_config.id,
                           n_series |-> Cardinality({r.unique_id :
                                            r \in Range(res.forecasts.rows)}),
                           horizon |-> model_config.horizon,
                           forecasts |-> first_records(res.forecasts.rows)])]

\* schemas.AlertRequest: the fields the request model declares; any other
\* field of the posted JSON body (such as threshold_type) is dropped.
AlertRequest(body) ==
    [model_config_id |-> body.model_config_id,
     alert_type |-> body.alert_type,
     threshold |-> body.threshold,
     series_filter |-> body.series_filter]

\* POST /alerts/create: the Alert row added to the table
new_alert(request) ==
    [id |-> Len(alerts) + 1,
     model_config_id |-> request.model_config_id,
     alert_type |-> request.alert_type,
     threshold |-> request.threshold,
     series_filter |-> request.series_filter,
     is_active |-> TRUE]

\* schemas.AlertResponse(...)
AlertResponse(alert) ==
    [id |-> alert.id, alert_type |-> alert.alert_type,
     threshold |-> alert.threshold, is_active |-> alert.is_active]

\* POST /alerts/check/{alert_id}
check_alerts(alert_id, lib) ==
    LET alert == first_by_id(alerts, alert_id)
    IN  IF alert = Null
        THEN [result |-> Null, response |-> HTTPException(404, <<"Alert not found">>)]
        ELSE
        LET model_config == first_by_id(model_configs, alert.model_config_id)
        IN  IF model_config = Null
            \* model_config.dataset_id is read outside the try block
            THEN [result |-> Null,
                  response |-> HTTPException(500, <<"Internal Server Error">>)]
            ELSE
            LET dataset == first_by_id(datasets, model_config.dataset_id)
            IN  IF dataset = Null
                THEN [result |-> Null,
                      response |-> HTTPException(400,
                          <<"Alert check failed: ", "AttributeError">>)]
                ELSE IF dataset.filename \notin DOMAIN uploads
                THEN [result |-> Null,
                      response |-> HTTPException(400,
                          <<"Alert check failed: ", "FileNotFoundError">>)]
                ELSE
                LET df == csv_frames[uploads[dataset.filename]]
                    res == engine_generate_forecast(df, model_config.models,
                                                    model_config.horizon, lib)
                IN  IF res.raised
                    THEN [result |-> res,
                          response |-> HTTPException(400,
                              <<"Alert check failed: ", res.error>>)]
                    ELSE
                    LET checked == check_capacity_alerts(res.forecasts,
                                       IF "capacity" \in Range(df.columns)
                                       THEN <<"series_id", "capacity">> ELSE <<>>,
                                       alert.threshold)
                    IN  [result |-> [raised |-> FALSE,
                                     forecasts |-> res.forecasts,
                                     forecasts_after |-> checked.forecasts,
                                     threshold |-> alert.threshold,
                                     alerts_triggered |-> checked.alerts],
                         response |-> Ok(
                             [alert_id |-> alert_id,
                              alerts_triggered |-> Len(checked.alerts),
                              alerts |-> checked.alerts])]

----------------------------------------------------------------------------
(* Inputs *)

\* Names a client may request ("Prophet" is not in the registry)
ModelNames == {"AutoARIMA", "ETS", "Prophet"}

\* The order of Python strings on the model names
NameRank == [m \in ModelNames \cup models_map |->
                CASE m = "AutoARIMA" -> 1 [] m = "ETS" -> 2
                  [] m = "Prophet" -> 3 [] OTHER -> 4]

\* Lists of at most MaxModels requested names, without repetition
ModelLists ==
    {l \in UNION {[1..n -> ModelNames] : n \in 0..MaxModels} :
        \A i, j \in DOMAIN l : l[i] = l[j] => i = j}

DefaultQuantiles == <<10, 50, 90>>

\* A deadline that has passed when the request arrives
Expired == [deadline |-> 0]

\* The bodies a client posts; it sends a step_size of its own only when it
\* asks for several folds, and a deadline only with the smallest request
BacktestBodies ==
    {body \in [dataset_id : 1..(Len(datasets) + 1),
               models : ModelLists,
               horizon : 1..MaxHorizon,
               quantiles : {DefaultQuantiles},
               n_folds : 1..MaxFolds \cup {LongFolds},
               step_size : {StepSize, 1},
               deadline : {Null, Expired}] :
        /\ body.n_folds = 1 => body.step_size = StepSize
        /\ body.deadline # Null => body.n_folds = 1 /\ body.horizon = 1}

\* What a model may predict for a series: nothing, the actual, one above it
PredChoices == {Missing, Val(0), Val(1)}

\* The series of the stored file of a dataset that prepare_data keeps: the
\* series the library is given
KeptSeries(dataset_id) ==
    LET dataset == first_by_id(datasets, dataset_id)
    IN  IF dataset = Null \/ dataset.filename \notin DOMAIN uploads THEN {}
        ELSE LET rows == prepared_frames[uploads[dataset.filename]].rows
             IN  {rows[i].unique_id : i \in DOMAIN rows}

\* The outcomes of the library for a request: a prediction for every
\* registered model requested and every series kept, and what the library
\* does when no requested model is registered; or the fit of one (model,
\* series, fold) raising while every other fit would predict the actual
LibOutcomes(dataset_id, models, n_folds) ==
    [pred : [Range(selected_models(models)) ->
                [KeptSeries(dataset_id) -> PredChoices]],
     no_models : IF selected_models(models) = <<>>
                 THEN {"raises", "no_columns"} ELSE {"no_columns"},
     fit_failure : {Null}]
    \cup
    [pred : {[m \in Range(selected_models(models)) |->
                [s \in KeptSeries(dataset_id) |-> Val(0)]]},
     no_models : {"no_columns"},
     fit_failure : [model : Range(selected_models(models)),
                    series : KeptSeries(dataset_id),
                    fold : 0..(n_folds - 1)]]

\* The levels the first model of a call may forecast for the first series
ForecastLevels == {96, 98}

\* What the models of a call forecast: they are fitted on the same data and
\* forecast around the same level, each one above the model before it, with
\* the same spread of their bands
forecast_of(selected, level, spread) ==
    [m \in Range(selected) |->
        [level |-> level + (CHOOSE p \in DOMAIN selected : selected[p] = m) - 1,
         spread |-> spread]]

\* The outcomes of the library for the forecast of an alert check: every fit
\* succeeds and the bands are ordered, at one of the levels
AlertForecastOutcomes(model_config_id) ==
    LET model_config == first_by_id(model_configs, model_config_id)
    IN  IF model_config = Null
        THEN {[fc |-> <<>>, no_models |-> "no_columns", fit_failure |-> Null]}
        ELSE LET selected == selected_models(model_config.models)
                 kept == KeptSeries(model_config.dataset_id)
             IN  [fc : {forecast_of(selected, level, 1) : level \in ForecastLevels},
                  no_models : IF selected = <<>> \/ kept = {}
                              THEN {"raises", "no_columns"} ELSE {"no_columns"},
                  fit_failure : {Null}]

\* The outcomes of the library for a forecast generation: forecasts at the
\* lowest level with ordered bands; or the fit of one series raising; or
\* forecasts whose bands are crossed (lower bound above the point, upper
\* bound below it)
ForecastOutcomes(model_config_id) ==
    LET model_config == first_by_id(model_configs, model_config_id)
    IN  IF model_config = Null
        THEN {[fc |-> <<>>, no_models |-> "no_columns", fit_failure |-> Null]}
        ELSE LET selected == selected_models(model_config.models)
                 kept == KeptSeries(model_config.dataset_id)
                 low == CHOOSE l \in ForecastLevels : \A o \in ForecastLevels : l <= o
             IN  [fc : {forecast_of(selected, low, 1)},
                  no_models : IF selected = <<>> \/ kept = {}
                              THEN {"raises", "no_columns"} ELSE {"no_columns"},
                  fit_failure : {Null}]
                 \cup
                 (IF selected = <<>> THEN {}
                  ELSE [fc : {forecast_of(selected, low, 1)},
                        no_models : {"no_columns"},
                        fit_failure : [series : kept]]
                       \cup
                       [fc : {forecast_of(selected, low, -1)},
                        no_models : {"no_columns"},
                        fit_failure : {Null}])

ForecastRequests == [model_config_id : 1..(Len(model_configs) + 1)]

\* Thresholds a client may configure
Thresholds == {100}

\* create_alert stores the posted model_config_id as it comes: while no
\* configuration is stored, the id 1 a client posts refers to none
AlertRequests ==
    [model_config_id : 1..(IF model_configs = <<>> THEN 1 ELSE Len(model_configs)),
     alert_type : {"capacity_breach"},
     threshold : Thresholds,
     threshold_type : {"absolute", "relative"},
     series_filter : {Null}]

\* The dataset names a client sends ("": none)
UploadNames == {"", "other"}

\* The frames a caller may hand to prepare_data: the rows of a file in file
\* order or in reverse, the rows of one day (dup, if not 0) carrying the date
\* of the day before, and the timestamp cell of the first row a date, empty
\* or a text that is no date
RawShapes ==
    [order : {"file", "reversed"}, dup : {0, 2, 30},
     defect : {"none", "empty", "garbage"}]

raw_frame(content, shape) ==
    LET base == csv_frames[content]
        n == Len(base.rows)
        ordered == [i \in 1..n |->
                       IF shape.order = "file" THEN base.rows[i]
                       ELSE base.rows[n + 1 - i]]
        cell(i) == IF i = 1 /\ shape.defect = "empty" THEN EmptyCell
                   ELSE IF i = 1 /\ shape.defect = "garbage" THEN GarbageCell
                   ELSE IF ordered[i].timestamp.day = shape.dup
                   THEN DateText(shape.dup - 1)
                   ELSE ordered[i].timestamp
    IN  [columns |-> base.columns,
         rows |-> [i \in 1..n |-> [ordered[i] EXCEPT !.timestamp = cell(i)]]]

----------------------------------------------------------------------------
(* The state machine *)

Init ==
    /\ \E content \in Contents : uploads = [f \in {"data.csv"} |-> content]
    /\ datasets = <<Dataset(1, "data", "data.csv",
                            validation_results[uploads["data.csv"]])>>
    /\ model_configs = <<>>
    /\ alerts = <<>>
    /\ forecasting_engine = ForecastingEngine(1)
    /\ call = [op |-> "none"]
    /\ response = Null

\* The model follows one session of the API's client: the dataset is
\* uploaded, one backtest is requested on it, and forecasts and alerts are
\* requested on what the backtest stored.
Backtest ==
    /\ call.op = "none"
    /\ \E body \in BacktestBodies :
         \E lib \in LibOutcomes(body.dataset_id, body.models, body.n_folds) :
            LET out == run_backtest(body, lib)
            IN  /\ model_configs' = out.model_configs
                /\ call' = [op |-> "run_backtest", body |-> body, result |-> out.result,
                            engine |-> forecasting_engine.instance]
                /\ response' = out.response
    /\ UNCHANGED <<uploads, datasets, alerts, forecasting_engine>>

GenerateForecast ==
    /\ call.op # "none"
    /\ \E request \in ForecastRequests :
         \E lib \in ForecastOutcomes(request.model_config_id) :
            LET out == generate_forecast(request, lib)
            IN  /\ call' = [op |-> "generate_forecast", request |-> request,
                            result |-> out.result,
                            engine |-> forecasting_engine.instance]
                /\ response' = out.response
    /\ UNCHANGED <<uploads, datasets, model_configs, alerts, forecasting_engine>>

CreateAlert ==
    /\ call.op # "none"
    /\ Len(alerts) < MaxAlerts
    /\ \E body \in AlertRequests :
         LET alert == new_alert(AlertRequest(body))
         IN  /\ alerts' = Append(alerts, alert)
             /\ call' = [op |-> "create_alert", request |-> body, result |-> Null]
             /\ response' = Ok(AlertResponse(alert))
    /\ UNCHANGED <<uploads, datasets, model_configs, forecasting_engine>>

\* call.rerun records that this check repeats the check handled just before
\* it on the same forecasts, and call.previous what that check returned.
CheckAlerts ==
    /\ \E alert_id \in 1..(Len(alerts) + 1) :
         \E lib \in AlertForecastOutcomes(
                    IF first_by_id(alerts, alert_id) = Null THEN 0
                    ELSE first_by_id(alerts, alert_id).model_config_id) :
            LET out == check_alerts(alert_id, lib)
                rerun == /\ call.op = "check_alerts"
                         /\ call.alert_id = alert_id
                         /\ response.status_code = 200
                         /\ out.response.status_code = 200
                         /\ call.result.forecasts_after = out.result.forecasts
            IN  /\ call' = [op |-> "check_alerts", alert_id |-> alert_id,
                            result |-> out.result,
                            engine |-> forecasting_engine.instance,
                            rerun |-> rerun,
                            previous |-> IF rerun THEN call.result.alerts_triggered
                                         ELSE <<>>]
                /\ response' = out.response
    /\ alerts # <<>>
    /\ UNCHANGED <<uploads, datasets, model_configs, alerts, forecasting_engine>>

Next == Backtest \/ GenerateForecast \/ CreateAlert \/ CheckAlerts

Spec == Init /\ [][Next]_vars

----------------------------------------------------------------------------
(* prepare_data on its own: a caller holds a frame and calls the method *)

PrepInit ==
    /\ \E content \in Contents : \E shape \in RawShapes :
          /\ uploads = [f \in {"data.csv"} |-> content]
          /\ call = [op |-> "frame", df |-> raw_frame(content, shape)]
    /\ datasets = <<Dataset(1, "data", "data.csv",
                            validation_results[uploads["data.csv"]])>>
    /\ model_configs = <<>>
    /\ alerts = <<>>
    /\ forecasting_engine = ForecastingEngine(1)
    /\ response = Null

\* forecasting_engine.prepare_data(df): call.df is the frame of the caller
\* before the call and call.df_after the same frame after it; the method
\* assigns no attribute of self
Prepare ==
    /\ call.op = "frame"
    /\ LET out == prepare_data(call.df)
       IN  call' = [op |-> "prepare_data", df |-> call.df, df_after |-> out.input,
                    result |-> out, engine_before |-> forecasting_engine]
    /\ forecasting_engine' = forecasting_engine
    /\ UNCHANGED <<uploads, datasets, model_configs, alerts, response>>

PrepNext == Prepare

PrepSpec == PrepInit /\ [][PrepNext]_vars

----------------------------------------------------------------------------
(* Uploads: the service starts with no file and no record *)

UploadInit ==
    /\ uploads = [f \in {} |-> Null]
    /\ datasets = <<>>
    /\ model_configs = <<>>
    /\ alerts = <<>>
    /\ forecasting_engine = ForecastingEngine(1)
    /\ call = [op |-> "none"]
    /\ response = Null

\* call.records_before is the number of Dataset records before the request
Upload ==
    /\ \E filename \in FileNames : \E name \in UploadNames : \E file \in UploadFiles :
          LET out == upload_dataset(filename, name, file)
          IN  /\ uploads' = out.uploads
              /\ datasets' = out.datasets
              /\ call' = [op |-> "upload_dataset", filename |-> filename,
                          name |-> name, file |-> file,
                          records_before |-> Len(datasets)]
              /\ response' = out.response
    /\ UNCHANGED <<model_configs, alerts, forecasting_engine>>

UploadNext == Upload

UploadSpec == UploadInit /\ [][UploadNext]_vars

----------------------------------------------------------------------------
(* Properties *)

\* The content of the stored file of a dataset
ContentOf(dataset_id) == uploads[first_by_id(datasets, dataset_id).filename]

\* The last request was a backtest and the engine returned its result dict
EngineReturned ==
    /\ call.op = "run_backtest"
    /\ call.result # Null
    /\ ~call.result.raised

\* The last request was a backtest that was answered with a BacktestResult
BacktestDone == call.op = "run_backtest" /\ response.status_code = 200

\* The last request produced a forecast frame
ForecastReturned ==
    /\ call.op \in {"generate_forecast", "check_alerts"}
    /\ call.result # Null
    /\ ~call.result.raised

\* The dataset a stored forecast request works on
ForecastDataset ==
    IF call.op = "generate_forecast"
    THEN first_by_id(model_configs, call.request.model_config_id).dataset_id
    ELSE first_by_id(model_configs,
                     first_by_id(alerts, call.alert_id).model_config_id).dataset_id

RowsOf(rows, s) == Cardinality({i \in DOMAIN rows : rows[i].unique_id = s})

\* The sum of f[i] over the finite set I
RECURSIVE SumOfSet(_, _)
SumOfSet(I, f) ==
    IF I = {} THEN 0
    ELSE LET i == CHOOSE j \in I : TRUE IN f[i] + SumOfSet(I \ {i}, f)

\* The rows of a cross-validation result in which both the actual and the
\* prediction of a model are present
ScoredTuples(rows, model) ==
    {i \in DOMAIN rows : ~rows[i].y.na /\ ~rows[i].pred[model].na}

\* IEEE-754 "a <= b"
FloatLe(a, b) ==
    /\ a.k # "nan"
    /\ b.k # "nan"
    /\ (FloatLt(a, b) \/ a = b)

\* The scores of the metrics item of a model
ScoresOf(metrics, model) ==
    metrics[CHOOSE j \in DOMAIN metrics : metrics[j].model = model].scores

\* C1: a series with fewer than 30 observations is absent from the prepared
\* frame and from the cross-validation rows, n_series and the forecasts; a
\* series with at least 30 is in the prepared frame with all of its rows and
\* in every window and every forecast.
C1_ShortSeriesAbsent ==
    /\ \A f \in DOMAIN uploads :
          \A s \in SeriesIds :
             RowsOf(prepared_frames[uploads[f]].rows, s)
                = IF uploads[f].lengths[s] < 30 THEN 0 ELSE uploads[f].lengths[s]
    /\ EngineReturned =>
          LET lengths == ContentOf(call.body.dataset_id).lengths
          IN  /\ \A s \in SeriesIds :
                    RowsOf(call.result.cv_results.rows, s)
                       = IF lengths[s] < 30 THEN 0
                         ELSE call.body.horizon * call.body.n_folds
              /\ call.result.n_series
                    = Cardinality({s \in SeriesIds : lengths[s] >= 30})
    /\ ForecastReturned =>
          LET lengths == ContentOf(ForecastDataset).lengths
          IN  \A s \in SeriesIds :
                 (lengths[s] < 30) => RowsOf(call.result.forecasts.rows, s) = 0

\* A backtest and a forecast on a file with a series of 25 rows and one of 30
C1_Witness ==
    /\ ForecastReturned
    /\ call.result.forecasts.rows # <<>>
    /\ model_configs # <<>>
    /\ \E s, t \in SeriesIds :
          /\ ContentOf(ForecastDataset).lengths[s] = 25
          /\ ContentOf(ForecastDataset).lengths[t] >= 30

\* C2: for a series of length L the backtest evaluates exactly the cutoffs
\* L - H - k*S, k = 0..N-1, for the horizon H, the number of folds N and the
\* step size S of the request.
C2_CutoffsFollowRequestedStep ==
    EngineReturned =>
       LET lengths == ContentOf(call.body.dataset_id).lengths
           rows == call.result.cv_results.rows
       IN  \A s \in {r.unique_id : r \in Range(rows)} :
              {r.cutoff : r \in {x \in Range(rows) : x.unique_id = s}}
                 = {lengths[s] - call.body.horizon - k * call.body.step_size :
                       k \in 0..(call.body.n_folds - 1)}

\* C3: the WAPE of a scored model is the one ratio of the sum of |actual -
\* predicted| to the sum of |actual| over the rows of the cross-validation
\* result that have both the actual and the model's prediction; rows without
\* one of them add to neither sum.
C3_WapeIsGlobalRatio ==
    EngineReturned =>
       \A j \in DOMAIN call.result.metrics :
          LET rows == call.result.cv_results.rows
              m == call.result.metrics[j].model
              wape == call.result.metrics[j].scores.wape
              I == ScoredTuples(rows, m)
              num == SumOfSet(I, [i \in I |-> Abs(rows[i].y.v - rows[i].pred[m].v)])
              den == SumOfSet(I, [i \in I |-> Abs(rows[i].y.v)])
          IN  /\ I # {}
              /\ den > 0 => wape.k = "fin" /\ wape.n * den = num * wape.d

\* A model scored on two series whose WAPE is not the mean of the ratios of
\* the two series, next to a model with predictions for one series only
C3_Witness ==
    /\ EngineReturned
    /\ \E j, l \in DOMAIN call.result.metrics :
          LET rows == call.result.cv_results.rows
              m == call.result.metrics[j].model
              o == call.result.metrics[l].model
              wape == call.result.metrics[j].scores.wape
              ratio(s) ==
                 LET I == {i \in ScoredTuples(rows, m) : rows[i].unique_id = s}
                 IN  FloatDiv(
                        SumOfSet(I, [i \in I |-> Abs(rows[i].y.v - rows[i].pred[m].v)]),
                        SumOfSet(I, [i \in I |-> Abs(rows[i].y.v)]))
          IN  /\ wape.k = "fin"
              /\ ratio("A").k = "fin"
              /\ ratio("B").k = "fin"
              /\ 2 * wape.n * ratio("A").d * ratio("B").d
                    # wape.d * (ratio("A").n * ratio("B").d + ratio("B").n * ratio("A").d)
              /\ \E i \in DOMAIN rows : rows[i].pred[o].na
              /\ call.result.metrics[l].scores.wape.k = "fin"
              /\ call.result.metrics[l].scores.wape.n > 0

\* C4: the WAPE of every scored model is a number >= 0, and it is 0 exactly
\* when the prediction equals the actual on every scored row.
C4_WapeZeroIffExact ==
    EngineReturned =>
       \A j \in DOMAIN call.result.metrics :
          LET rows == call.result.cv_results.rows
              m == call.result.metrics[j].model
              wape == call.result.metrics[j].scores.wape
          IN  /\ FloatLe(Fin(0, 1), wape)
              /\ (wape = Fin(0, 1))
                    <=> \A i \in ScoredTuples(rows, m) : rows[i].pred[m].v = rows[i].y.v

\* C5: the winner of a backtest is one scored model and its WAPE is at most
\* the WAPE of every other scored model.
C5_WinnerHasMinimumWape ==
    BacktestDone =>
       LET metrics == response.body.model_results
       IN  /\ Cardinality({j \in DOMAIN metrics :
                              metrics[j].model = response.body.winner_model}) = 1
           /\ response.body.wape = ScoresOf(metrics, response.body.winner_model).wape
           /\ \A j \in DOMAIN metrics :
                 metrics[j].model # response.body.winner_model =>
                    FloatLe(response.body.wape, metrics[j].scores.wape)

\* C6: among scored models of equal minimum WAPE the winner has the lower
\* capacity_breach_rate, and with equal or absent breach rates the
\* lexicographically smallest name, whatever the order of the request.
C6_TieBrokenByBreachRateThenName ==
    BacktestDone =>
       LET metrics == response.body.model_results
           w == response.body.winner_model
       IN  \A j \in DOMAIN metrics :
              (metrics[j].model # w /\ metrics[j].scores.wape = response.body.wape) =>
                 LET cw == get_capacity_breach_rate(ScoresOf(metrics, w))
                     cj == get_capacity_breach_rate(metrics[j].scores)
                 IN  \/ FloatLt(cw, cj)
                     \/ cw = cj /\ NameRank[w] < NameRank[metrics[j].model]

\* The response of a backtest whose metrics dict is empty
NoScoresResponse ==
    HTTPException(400, <<"Backtest failed: ", "min() arg is an empty sequence">>)

C8_UnscoredModelHasNoEntry ==
    EngineReturned =>
       \A m \in Range(selected_models(call.body.models)) :
          (ScoredTuples(call.result.cv_results.rows, m) = {})
             <=> (\A j \in DOMAIN call.result.metrics : call.result.metrics[j].model # m)

\* A backtest of two models one of which predicts nothing
C8_Witness ==
    /\ BacktestDone
    /\ EngineReturned
    /\ \E m \in Range(selected_models(call.body.models)) :
          ScoredTuples(call.result.cv_results.rows, m) = {}

\* C9: a check of the forecasts of a single model emits one alert for every
\* forecast row whose upper 90% bound is above the threshold and none for
\* any other row, each alert with the row's series, day and bound and the
\* threshold.
C9_AlertForEveryPointAboveThreshold ==
    (call.op = "check_alerts" /\ response.status_code = 200) =>
       LET rows == call.result.forecasts.rows
           models == {m \in models_map : m \in Range(call.result.forecasts.columns)}
           events == call.result.alerts_triggered
       IN  \A m \in models :
              models = {m} =>
                 /\ \A i \in DOMAIN rows :
                       Cardinality({e \in DOMAIN events :
                                       /\ events[e].series_id = rows[i].unique_id
                                       /\ events[e].date = rows[i].ds
                                       /\ events[e].predicted_demand
                                             = rows[i].cells[m \o "-hi-90"]
                                       /\ events[e].threshold = call.result.threshold})
                          = IF rows[i].cells[m \o "-hi-90"] > call.result.threshold
                            THEN 1 ELSE 0
                 /\ Len(events)
                       = Cardinality({i \in DOMAIN rows :
                            rows[i].cells[m \o "-hi-90"] > call.result.threshold})

BacktestKept ==
    {s \in SeriesIds : ContentOf(call.body.dataset_id).lengths[s] >= 30}

\* The last request was a backtest that found its dataset and file
BacktestRead == call.op = "run_backtest" /\ call.result # Null

\* C11: a backtest in which the fit of one (model, series, fold) fails while
\* other triples remain is answered with scores and a winner computed from
\* the remaining triples.
C11_FitFailureNotFatal ==
    (/\ BacktestRead
     /\ "failed" \in DOMAIN call.result
     /\ Len(selected_models(call.body.models)) * Cardinality(BacktestKept)
           * call.body.n_folds > 1) =>
          /\ response.status_code = 200
          /\ response.body.winner_model \in Range(selected_models(call.body.models))
          /\ response.body.model_results # <<>>

\* C13: a backtest on a file without a series of 30 rows fails with the
\* error of the length filter, whatever the library would do with the
\* request, without a cross-validation result, a score or a stored
\* configuration.
C13_NoValidSeriesFailsFirst ==
    (BacktestRead /\ BacktestKept = {}) =>
       /\ call.result = [raised |-> TRUE, error |-> NoValidSeries]
       /\ response = HTTPException(400, <<"Backtest failed: ", NoValidSeries>>)
       /\ model_configs = <<>>

\* A backtest of a file whose only series has 25 rows, with a known model
C13_Witness ==
    /\ BacktestRead
    /\ BacktestKept = {}
    /\ \E s \in SeriesIds : ContentOf(call.body.dataset_id).lengths[s] = 25
    /\ selected_models(call.body.models) # <<>>
    /\ response.status_code = 400

\* The folds of a series of the last backtest that leave at least one
\* observation to train on
EvaluableFolds(s) ==
    {k \in 0..(call.body.n_folds - 1) :
        ContentOf(call.body.dataset_id).lengths[s]
           - call.body.horizon - k * StepSize >= 1}

\* C14: a backtest in which a fold of a kept series leaves nothing to train
\* on raises no error: the engine returns the rows of the other folds of
\* that series and of every other series.
C14_ShortFoldSkipped ==
    (/\ BacktestRead
     /\ selected_models(call.body.models) # <<>>
     /\ \E s \in BacktestKept : EvaluableFolds(s) # 0..(call.body.n_folds - 1)) =>
       /\ ~call.result.raised
       /\ \A s \in BacktestKept :
             {r.cutoff : r \in {x \in Range(call.result.cv_results.rows) :
                                   x.unique_id = s}}
                = {ContentOf(call.body.dataset_id).lengths[s]
                      - call.body.horizon - k * StepSize : k \in EvaluableFolds(s)}

\* The last request was a forecast generation whose engine call returned
ForecastGenerated ==
    /\ call.op = "generate_forecast"
    /\ response.status_code = 200

\* The configuration and the file content of the last forecast request
ForecastConfig == first_by_id(model_configs, call.request.model_config_id)

ForecastKept ==
    {s \in SeriesIds : ContentOf(ForecastConfig.dataset_id).lengths[s] >= 30}

\* C12: a forecast generation in which the fit of one series fails returns
\* the forecasts of every other kept series (and none of the failed one)
\* instead of an error.
C12_ForecastFailureIsPartial ==
    (/\ call.op = "generate_forecast"
     /\ call.result # Null
     /\ "failed" \in DOMAIN call.result) =>
       /\ response.status_code = 200
       /\ {r.unique_id : r \in Range(response.body.forecasts)}
             = ForecastKept \ {call.result.failed.series}

\* C15: a forecast generation returns, for every kept series, exactly
\* horizon rows for the days after the last observation of the series, each
\* with the point value and the interval bounds of the winning model, and no
\* other row and no other model.
C15_ForecastOfWinnerOnFullHistory ==
    ForecastGenerated =>
       LET rows == response.body.forecasts
           lengths == ContentOf(ForecastConfig.dataset_id).lengths
       IN  /\ \A s \in SeriesIds :
                 {r.ds : r \in {x \in Range(rows) : x.unique_id = s}}
                    = IF s \in ForecastKept
                      THEN (lengths[s] + 1)..(lengths[s] + ForecastConfig.horizon)
                      ELSE {}
           /\ Len(rows) = Cardinality(ForecastKept) * ForecastConfig.horizon
           /\ \A i \in DOMAIN rows :
                 DOMAIN rows[i].cells = Range(forecast_columns(ForecastConfig.winner_model))

\* C16: every forecast row that a forecast generation returns has, for every
\* model and level, lower bound <= point <= upper bound.
C16_BandsOrdered ==
    ForecastGenerated =>
       \A i \in DOMAIN response.body.forecasts :
          LET cells == response.body.forecasts[i].cells
          IN  \A m \in models_map :
                 m \in DOMAIN cells =>
                    /\ cells[m \o "-lo-90"] <= cells[m]
                    /\ cells[m \o "-lo-80"] <= cells[m]
                    /\ cells[m] <= cells[m \o "-hi-80"]
                    /\ cells[m] <= cells[m \o "-hi-90"]

\* C17: after a backtest on a dataset without a capacity column no model's
\* scores contain a capacity_breach_rate, and neither the response nor the
\* stored configuration shows the rate as 0.
C17_AbsentBreachRateNotZero ==
    (BacktestDone /\ ~ContentOf(call.body.dataset_id).has_capacity) =>
       /\ \A i \in DOMAIN response.body.model_results :
             "capacity_breach_rate" \notin DOMAIN response.body.model_results[i].scores
       /\ response.body.capacity_breach_rate # Fin(0, 1)
       /\ first_by_id(model_configs, response.body.model_config_id).capacity_breach_rate
             # Fin(0, 1)

\* The scored tuples of a model whose prediction lies above the capacity of
\* the series on that day while the actual does not: false-positive breaches
\* of every upper quantile, which is at least the prediction
FalsePositives(rows, model) ==
    {i \in ScoredTuples(rows, model) :
        /\ rows[i].pred[model].v > Capacity(rows[i].unique_id, rows[i].ds)
        /\ rows[i].y.v <= Capacity(rows[i].unique_id, rows[i].ds)}

\* C18: after a backtest on a dataset with capacity data the
\* capacity_breach_rate of every scored model is a fraction in [0,1], and it
\* is above 0 when one of the model's tuples is a false-positive breach.
C18_BreachRateCountsBreaches ==
    (BacktestDone /\ ContentOf(call.body.dataset_id).has_capacity) =>
       \A i \in DOMAIN call.result.metrics :
          LET item == call.result.metrics[i]
              rate == item.scores.capacity_breach_rate
          IN  /\ FloatLe(Fin(0, 1), rate)
              /\ FloatLe(rate, Fin(1, 1))
              /\ FalsePositives(call.result.cv_results.rows, item.model) # {}
                    => FloatLt(Fin(0, 1), rate)

\* The alert the last request created, its configuration and the file of
\* its dataset
CreatedAlert == alerts[Len(alerts)]

CreatedAlertConfig == first_by_id(model_configs, CreatedAlert.model_config_id)

CreatedAlertContent == ContentOf(CreatedAlertConfig.dataset_id)

\* The forecasts of the configuration of the created alert, when AutoARIMA
\* forecasts the lowest level with ordered bands
CreatedAlertForecasts ==
    LET selected == selected_models(CreatedAlertConfig.models)
    IN  sf_forecast(prepared_frames[CreatedAlertContent], selected,
                    CreatedAlertConfig.horizon,
                    forecast_of(selected,
                                CHOOSE l \in ForecastLevels :
                                   \A o \in ForecastLevels : l <= o,
                                1))

\* C19: an alert created with a relative threshold is evaluated per series
\* against the multiplier times the capacity of that series: a check of the
\* stored alert flags exactly the forecast rows whose upper 90% bound is
\* above that value.
C19_RelativeThresholdNormalized ==
    (/\ call.op = "create_alert"
     /\ call.request.threshold_type = "relative"
     /\ CreatedAlertConfig # Null
     /\ CreatedAlertContent.has_capacity
     /\ selected_models(CreatedAlertConfig.models) = <<"AutoARIMA">>) =>
        LET flagged == check_capacity_alerts(CreatedAlertForecasts,
                                             <<"series_id", "capacity">>,
                                             CreatedAlert.threshold).alerts
        IN  {<<a.series_id, a.date>> : a \in Range(flagged)}
               = {<<r.unique_id, r.ds>> : r \in
                    {x \in Range(CreatedAlertForecasts.rows) :
                        x.cells["AutoARIMA-hi-90"]
                           > call.request.threshold * Capacity(x.unique_id, x.ds)}}

\* C20: no engine object is shared between runs: a request that reaches the
\* engine is served by an engine constructed for it, not by the module-level
\* instance.
C20_NoSharedEngine ==
    (/\ call.op \in {"run_backtest", "generate_forecast", "check_alerts"}
     /\ call.result # Null) =>
        call.engine # forecasting_engine.instance

\* C21: the winner of a backtest is the same for every order in which the
\* scores of the models are collected: selecting from the metrics items in
\* any other order gives the winner the response names.
C21_WinnerIndependentOfOrder ==
    BacktestDone =>
       LET metrics == call.result.metrics
       IN  \A p \in Permutations(DOMAIN metrics) :
              best_model_of([i \in DOMAIN metrics |-> metrics[p[i]]]).item.model
                 = response.body.winner_model

\* C22: a backtest whose deadline has passed before its first unit of work
\* is answered with a result that is marked incomplete.
C22_CancelledRunMarkedIncomplete ==
    (BacktestDone /\ call.body.deadline # Null) =>
       /\ "incomplete" \in DOMAIN response.body
       /\ response.body.incomplete = TRUE

C27_AlertsOnAnyRequestedModel ==
    (call.op = "check_alerts" /\ response.status_code = 200) =>
       LET rows == call.result.forecasts.rows
           models == {m \in models_map : m \in Range(call.result.forecasts.columns)}
       IN  (/\ "AutoARIMA" \notin models
            /\ \E m \in models : \E i \in DOMAIN rows :
                  rows[i].cells[forecast_columns(m)[5]] > call.result.threshold)
              => call.result.alerts_triggered # <<>>

\* C30: a ModelConfig is stored only by a backtest that was answered with a
\* result and scored at least one model; its winner is one of the requested
\* names that the registry of the engine holds and one of the scored models;
\* and a forecast or an alert check is answered with a result only for a
\* stored ModelConfig.
C30_ConfigOnlyFromScoredBacktest ==
    /\ \A i \in DOMAIN model_configs :
          /\ model_configs[i].winner_model \in Range(model_configs[i].models)
          /\ model_configs[i].winner_model \in models_map
    /\ call.op = "none" => model_configs = <<>>
    /\ call.op = "run_backtest" =>
          /\ model_configs # <<>> <=> response.status_code = 200
          /\ model_configs # <<>> =>
                /\ call.result # Null
                /\ ~call.result.raised
                /\ call.result.metrics # <<>>
                /\ \E j \in DOMAIN call.result.metrics :
                      call.result.metrics[j].model
                         = model_configs[Len(model_configs)].winner_model
                /\ model_configs[Len(model_configs)].models = call.body.models
    /\ (call.op = "generate_forecast" /\ response.status_code = 200) =>
          first_by_id(model_configs, call.request.model_config_id) # Null
    /\ (call.op = "check_alerts" /\ response.status_code = 200) =>
          first_by_id(model_configs,
                      first_by_id(alerts, call.alert_id).model_config_id) # Null

\* A backtest that was asked for an unregistered model beside a registered
\* one has stored its ModelConfig
C30_Witness ==
    /\ BacktestDone
    /\ "Prophet" \in Range(call.body.models)
    /\ model_configs # <<>>

\* The indices of the rows of a sequence that belong to series s
RowsOfSeries(rows, s, id) == {i \in DOMAIN rows : rows[i][id] = s}

\* C23: for every series of the input that has the minimum number of rows,
\* the prepared frame holds the same rows (timestamp, value) the same number
\* of times as the input, duplicates of a timestamp included, and holds them
\* in non-decreasing order of the timestamp.
C23_SortedWithDuplicatesKept ==
    (/\ call.op = "prepare_data"
     /\ \A i \in DOMAIN call.df.rows : call.df.rows[i].timestamp.text = "date") =>
        /\ ~call.result.raised
        /\ LET in == call.df.rows
               out == call.result.rows
           IN  \A s \in {u \in SeriesIds :
                            Cardinality(RowsOfSeries(in, u, "series_id"))
                               >= MinSeriesLength} :
                  LET ins == RowsOfSeries(in, s, "series_id")
                      outs == RowsOfSeries(out, s, "unique_id")
                  IN  /\ \A i \in ins :
                            Cardinality({j \in ins :
                                /\ in[j].timestamp.day = in[i].timestamp.day
                                /\ in[j].y = in[i].y})
                             = Cardinality({j \in outs :
                                /\ out[j].ds = in[i].timestamp.day
                                /\ out[j].y = in[i].y})
                      /\ Cardinality(outs) = Cardinality(ins)
                      /\ \A i, j \in outs : i < j => out[i].ds <= out[j].ds

\* A frame given in reverse order, with two rows of a retained series on the
\* same day, has been prepared
C23_Witness ==
    /\ call.op = "prepare_data"
    /\ ~call.result.raised
    /\ \E i, j \in DOMAIN call.df.rows :
          /\ i < j
          /\ call.df.rows[i].series_id = call.df.rows[j].series_id
          /\ call.df.rows[i].timestamp = call.df.rows[j].timestamp
          /\ call.df.rows[i].timestamp.text = "date"
          /\ \E k \in DOMAIN call.result.rows :
                call.result.rows[k].unique_id = call.df.rows[i].series_id
    /\ \E i \in DOMAIN call.df.rows :
          /\ i < Len(call.df.rows)
          /\ call.df.rows[i].series_id = call.df.rows[i + 1].series_id
          /\ call.df.rows[i].timestamp.day > call.df.rows[i + 1].timestamp.day

\* C24: prepare_data leaves the frame it is given as it was, in rows,
\* columns and values, and leaves the engine as it was.
C24_PreparationIsPure ==
    call.op = "prepare_data" =>
       /\ call.df_after = call.df
       /\ forecasting_engine = call.engine_before

\* A frame with a capacity column and a short series has been prepared into
\* a frame that differs from it
C24_Witness ==
    /\ call.op = "prepare_data"
    /\ ~call.result.raised
    /\ call.result.rows # <<>>
    /\ "capacity" \in Range(call.df.columns)
    /\ Len(call.result.rows) < Len(call.df.rows)

\* C25: the preparation of a frame with a timestamp cell that holds no date
\* fails and returns no frame.
C25_UnparseableTimestampFails ==
    (/\ call.op = "prepare_data"
     /\ \E i \in DOMAIN call.df.rows : call.df.rows[i].timestamp.text # "date") =>
        call.result.raised

\* What the validation of an upload asks of the frame of the file: the
\* required columns, no empty cell of 'y', and no timestamp cell that fails
\* to parse
PassesValidation(df) ==
    /\ {"timestamp", "series_id", "y"} \subseteq Range(df.columns)
    /\ \A i \in DOMAIN df.rows : ~df.rows[i].y.na
    /\ \A i \in DOMAIN df.rows : df.rows[i].timestamp.text # "garbage"

====
